---- MODULE Spec2Model ----
(***************************************************************************)
(* Model of mcleaner.py: main() walks the configured mailboxes, and        *)
(* process_mailbox() opens one IMAP session per mailbox and calls          *)
(* process_mailbox_folder() for every folder of the cutoff map.            *)
(*                                                                         *)
(* The IMAP server and imaplib are the environment.  Every imaplib call    *)
(* either returns 'OK', returns 'NO' (imaplib hands a NO completion back   *)
(* to the caller without raising, except for login), or raises (a BAD      *)
(* completion, a dropped connection, or a command that imaplib refuses in  *)
(* the session's current state).                                           *)
(***************************************************************************)
EXTENDS Integers, Sequences, FiniteSets

\* ---- bounds ------------------------------------------------------------
NumAccounts == 2      \* entries of config["mboxes"]
NumFolders == 2       \* entries of config["cutofftime"]
MaxThreshold == 1     \* largest cutoff time, in hours
MaxMsgs == 3          \* messages a folder can hold

Accounts == 1..NumAccounts
\* config["cutofftime"] is a dict: its keys, in iteration order
Folders == 1..NumFolders
\* the messages a folder can hold; message m was delivered m hours
\* less 30 minutes ago
Msgs == 1..MaxMsgs
AgeSeconds(m) == m * 3600 - 1800

NoFolder == 0

VARIABLES
  cutoff_config,  \* config["cutofftime"]: folder -> hours
  pc,             \* the statement the program is at
  acct,           \* position of main's loop over config["mboxes"]
  fld,            \* position of process_mailbox's loop over cutoff_config
  user_bound,     \* whether process_mailbox's local `user` is assigned
  mail_state,     \* imaplib's self.state of the current `mail` object
  selected,       \* the folder the server has selected in this session
  box,            \* the selected folder on the server: present, deleted
  status,         \* process_mailbox_folder's local `status`
  messages,       \* process_mailbox_folder's local `messages` (after split)
  i,              \* the loop index of line 32, 1-based
  h,              \* what the current folder pass has done so far
  ah,             \* what the current process_mailbox call has done so far
  rh              \* what the run has done so far: the accounts called and
                  \* opened, and the account whose login was rejected or
                  \* whose close or logout raised, remembered until the
                  \* login of the account after it

vars == <<cutoff_config, pc, acct, fld, user_bound, mail_state, selected,
          box, status, messages, i, h, ah, rh>>

EmptyBox == [present |-> {}, deleted |-> {}]

\* observations of one call of process_mailbox_folder
NewPass ==
  [pass |-> "none", folder |-> NoFolder, selectRes |-> "none", nSearch |-> 0, searchArg |-> -1,
   fetched |-> <<>>, stored |-> <<>>, marked |-> {}, nExpunge |-> 0,
   actedOn |-> {},
   purged |-> {}, folderErr |-> FALSE, opFailed |-> FALSE,
   fetchFailed |-> FALSE]

\* observations of one call of process_mailbox
NewAcct ==
  [account |-> 0, connected |-> FALSE, loggedIn |-> FALSE, selIssued |-> {},
   selFailed |-> {}, passFailed |-> FALSE, nClose |-> 0, nLogout |-> 0, tdFailed |-> FALSE,
   acctErr |-> FALSE, returned |-> FALSE]

Init ==
  /\ cutoff_config \in [Folders -> 0..MaxThreshold]
  /\ pc = "main"
  /\ acct = 1
  /\ fld = 1
  /\ user_bound = FALSE
  /\ mail_state = "NONE"
  /\ selected = NoFolder
  /\ box = EmptyBox
  /\ status = "none"
  /\ messages = <<>>
  /\ i = 1
  /\ h = NewPass
  /\ ah = NewAcct
  /\ rh = [called |-> {}, opened |-> {}, loginFailed |-> {}, tdFailed |-> {}]

\* ---- helpers -----------------------------------------------------------
\* the sequences that list every element of S once, in any order
Perms(S) ==
  {s \in [1..Cardinality(S) -> S] : \A x, y \in 1..Cardinality(S) : x # y => s[x] # s[y]}

\* (variant: the cutoff converted to minutes only)
AgeArgMinutes(cut_time) == cut_time * 60

\* line 27: the argument of OLDER
AgeArg(cut_time) == cut_time * 60 * 60

\* what the server answers to SEARCH OLDER n on the selected folder
Older(b, n) == {m \in b.present : AgeSeconds(m) > n}

\* (variant: only the first message is a boundary)
IsBoundaryFirstOnly(k, len) == k = 1

\* line 34: the messages whose Date header is fetched
IsBoundary(k, len) == (k = 1) \/ (k = len)

\* (variant: the expunge is skipped when nothing was found)
NextAfterLoopSkipEmpty(len) == IF len = 0 THEN "ret" ELSE "expunge"

\* lines 47-49 follow the if/else of line 30 unconditionally
NextAfterLoop(len) == "expunge"

\* (variant: the handlers let the exception go on to the caller)
HandlerPcReraise(bound) == "crashed"

\* lines 73-76: both handlers format `user` into the log line; when `user`
\* is still unassigned that raises UnboundLocalError out of the handler,
\* out of process_mailbox and out of main, which has no handler around
\* line 101
HandlerPc(bound) == IF bound THEN "main" ELSE "crashed"

\* (variant: the handlers swallow the exception without a log line)
RaiseSilent(bound, a, p) ==
  /\ pc' = HandlerPc(bound)
  /\ acct' = IF pc' = "main" THEN acct + 1 ELSE acct
  /\ ah' = [a EXCEPT !.acctErr = FALSE, !.returned = (pc' = "main")]
  /\ h' = [p EXCEPT !.pass = IF p.pass = "running" THEN "raised" ELSE p.pass]

\* an exception raised inside the try block of process_mailbox; a and p are
\* the observations including the raising call
Raise(bound, a, p) ==
  /\ pc' = HandlerPc(bound)
  /\ acct' = IF pc' = "main" THEN acct + 1 ELSE acct
  /\ ah' = [a EXCEPT !.acctErr = bound, !.returned = (pc' = "main")]
  /\ h' = [p EXCEPT !.pass = IF p.pass = "running" THEN "raised" ELSE p.pass]

\* the contents a folder can have when it is selected
Boxes == {b \in [present : SUBSET Msgs, deleted : SUBSET Msgs] : b.deleted \subseteq b.present}

\* ---- main --------------------------------------------------------------
\* lines 100-101: the next mailbox; process_mailbox is entered
MainLoop ==
  /\ pc = "main"
  /\ acct <= NumAccounts
  /\ pc' = "connect"
  /\ rh' = [rh EXCEPT !.called = @ \cup {acct},
                      !.loginFailed = @ \cap {acct - 1},
                      !.tdFailed = @ \cap {acct - 1}]
  /\ user_bound' = FALSE
  /\ mail_state' = "NONE"
  /\ selected' = NoFolder
  /\ box' = EmptyBox
  /\ fld' = 1
  /\ status' = "none"
  /\ messages' = <<>>
  /\ i' = 1
  /\ h' = NewPass
  /\ ah' = [NewAcct EXCEPT !.account = acct]
  /\ UNCHANGED <<cutoff_config, acct>>

\* line 101: the loop over config["mboxes"] is exhausted and main returns;
\* the locals of the last process_mailbox call are gone
MainExit ==
  /\ pc = "main"
  /\ acct > NumAccounts
  /\ pc' = "done"
  /\ user_bound' = FALSE
  /\ mail_state' = "NONE"
  /\ selected' = NoFolder
  /\ box' = EmptyBox
  /\ fld' = 1
  /\ status' = "none"
  /\ messages' = <<>>
  /\ i' = 1
  /\ h' = NewPass
  /\ ah' = NewAcct
  /\ UNCHANGED <<cutoff_config, acct, rh>>

\* ---- process_mailbox ---------------------------------------------------
\* line 61: imaplib.IMAP4_SSL(host)
Connect ==
  /\ pc = "connect"
  /\ rh' = [rh EXCEPT !.opened = @ \cup {acct}]
  /\ \E r \in {"OK", "raise"} :
       IF r = "OK"
       THEN /\ mail_state' = "NONAUTH"
            /\ ah' = [ah EXCEPT !.connected = TRUE]
            /\ pc' = "login"
            /\ UNCHANGED <<acct, h>>
       ELSE /\ Raise(user_bound, ah, h)
            /\ UNCHANGED mail_state
  /\ UNCHANGED <<cutoff_config, fld, user_bound, selected, box, status,
                 messages, i>>

\* (variant: a rejected login is handed back like the NO of other commands)
LoginRaisesOnlyBad(r) == r = "raise"

\* line 63: imaplib's login raises error whenever the completion is not OK
LoginRaises(r) == r # "OK"

\* lines 62-63: user is assigned, then mail.login; NO is the server
\* rejecting the credentials
Login ==
  /\ pc = "login"
  /\ user_bound' = TRUE
  /\ \E r \in {"OK", "NO", "raise"} :
       /\ rh' = [rh EXCEPT !.loginFailed = IF r = "OK" THEN {} ELSE {acct},
                           !.tdFailed = {}]
       /\ IF LoginRaises(r)
          THEN /\ Raise(TRUE, ah, h)
               /\ UNCHANGED mail_state
          ELSE /\ mail_state' = IF r = "OK" THEN "AUTH" ELSE mail_state
               /\ ah' = [ah EXCEPT !.loggedIn = (r = "OK")]
               /\ pc' = "for_fld"
               /\ UNCHANGED <<acct, h>>
  /\ UNCHANGED <<cutoff_config, fld, selected, box, status, messages, i>>

\* lines 66-67: the next folder; process_mailbox_folder is entered; after
\* the last folder no pass is running and its locals are gone
ForFld ==
  /\ pc = "for_fld"
  /\ IF fld <= NumFolders
     THEN /\ pc' = "select"
          /\ h' = [NewPass EXCEPT !.pass = "running", !.folder = fld]
          /\ status' = "none"
          /\ messages' = <<>>
          /\ i' = 1
     ELSE /\ pc' = "close"
          /\ h' = NewPass
          /\ status' = "none"
          /\ messages' = <<>>
          /\ i' = 1
  /\ UNCHANGED <<cutoff_config, acct, fld, user_bound, mail_state, selected,
                 box, ah, rh>>

\* line 70: mail.close(); CLOSE is legal only in state SELECTED, imaplib
\* sets the state to AUTH whatever happens; the server removes the deleted
\* messages of the folder it closes
Close ==
  /\ pc = "close"
  /\ mail_state' = "AUTH"
  /\ LET a == [ah EXCEPT !.nClose = @ + 1]
         f == [a EXCEPT !.tdFailed = TRUE]
         rf == [rh EXCEPT !.tdFailed = @ \cup {acct}]
     IN
     IF mail_state # "SELECTED"
     THEN /\ Raise(user_bound, f, h)
          /\ rh' = rf
          /\ UNCHANGED <<selected, box>>
     ELSE \E r \in {"OK", "NO", "raise"} :
            /\ IF r = "OK"
               THEN /\ selected' = NoFolder
                    /\ box' = EmptyBox
               ELSE UNCHANGED <<selected, box>>
            /\ IF r = "raise"
               THEN /\ Raise(user_bound, f, h)
                    /\ rh' = rf
               ELSE /\ pc' = "logout"
                    /\ ah' = a
                    /\ UNCHANGED <<acct, h, rh>>
  /\ UNCHANGED <<cutoff_config, fld, user_bound, status, messages, i>>

\* line 71: mail.logout(), then process_mailbox returns
Logout ==
  /\ pc = "logout"
  /\ mail_state' = "LOGOUT"
  /\ LET a == [ah EXCEPT !.nLogout = @ + 1] IN
     \E r \in {"OK", "raise"} :
       IF r = "OK"
       THEN /\ pc' = "main"
            /\ acct' = acct + 1
            /\ ah' = [a EXCEPT !.returned = TRUE]
            /\ UNCHANGED <<h, rh>>
       ELSE /\ Raise(user_bound, [a EXCEPT !.tdFailed = TRUE], h)
            /\ rh' = [rh EXCEPT !.tdFailed = @ \cup {acct}]
  /\ UNCHANGED <<cutoff_config, fld, user_bound, selected, box, status,
                 messages, i>>

\* ---- process_mailbox_folder --------------------------------------------
\* (variant: the session counts as SELECTED after any completed select)
StateAfterSelectAlways(r, st) == IF r = "raise" THEN st ELSE "SELECTED"

\* line 25: imaplib's state after mail.select: SELECTED after OK, back to
\* AUTH after NO, untouched when the call raises
StateAfterSelect(r, st) ==
  IF r = "OK" THEN "SELECTED" ELSE IF r = "NO" THEN "AUTH" ELSE st

\* line 25: mail.select(folder, readonly=False); SELECT is legal only in
\* states AUTH and SELECTED; a NO completion is returned to the caller,
\* which ignores it.  After a NO the server has no folder selected
\* (RFC 3501); a server that keeps the previous folder selected is covered
\* too
Select ==
  /\ pc = "select"
  /\ IF mail_state \notin {"AUTH", "SELECTED"}
     THEN /\ Raise(user_bound,
                   [ah EXCEPT !.selIssued = @ \cup {fld}, !.selFailed = @ \cup {fld}],
                   [h EXCEPT !.selectRes = "raise", !.opFailed = TRUE])
          /\ UNCHANGED <<mail_state, selected, box>>
     ELSE \E r \in {"OK", "NO", "raise"} :
       LET a == [ah EXCEPT !.selIssued = @ \cup {fld},
                           !.selFailed = IF r = "OK" THEN @ ELSE @ \cup {fld}]
           p == [h EXCEPT !.selectRes = r, !.opFailed = (r # "OK")]
       IN
       /\ mail_state' = StateAfterSelect(r, mail_state)
       /\ IF r = "OK"
          THEN /\ selected' = fld
               /\ box' \in Boxes
          ELSE IF r = "NO"
          THEN \/ /\ selected' = NoFolder
                  /\ box' = EmptyBox
               \/ UNCHANGED <<selected, box>>
          ELSE UNCHANGED <<selected, box>>
       /\ IF r = "raise"
          THEN Raise(user_bound, a, p)
          ELSE /\ pc' = "search"
               /\ ah' = a
               /\ h' = p
               /\ UNCHANGED acct
  /\ UNCHANGED <<cutoff_config, fld, user_bound, status, messages, i, rh>>

\* lines 26-31 and 44-45: mail.search(None, '(OLDER n)'); SEARCH is legal
\* only in state SELECTED; the result is split into message numbers, in the
\* order the server listed them; a status other than OK is logged
Search ==
  /\ pc = "search"
  /\ LET arg == AgeArg(cutoff_config[fld])
         p == [h EXCEPT !.nSearch = @ + 1, !.searchArg = arg]
         q == [p EXCEPT !.actedOn = @ \cup {selected}]
     IN
     IF mail_state # "SELECTED"
     THEN /\ Raise(user_bound, ah, [p EXCEPT !.opFailed = TRUE])
          /\ UNCHANGED <<status, messages>>
     ELSE \E r \in {"OK", "NO", "raise"} :
            IF r = "OK"
            THEN /\ status' = "OK"
                 /\ messages' \in Perms(Older(box, arg))
                 /\ pc' = "loop"
                 /\ h' = q
                 /\ UNCHANGED <<acct, ah>>
            ELSE IF r = "NO"
            THEN /\ status' = "NO"
                 /\ pc' = "expunge"
                 /\ h' = [q EXCEPT !.folderErr = TRUE, !.opFailed = TRUE]
                 /\ UNCHANGED <<acct, ah, messages>>
            ELSE /\ Raise(user_bound, ah, [q EXCEPT !.opFailed = TRUE])
                 /\ UNCHANGED <<status, messages>>
  /\ i' = 1
  /\ UNCHANGED <<cutoff_config, fld, user_bound, mail_state, selected, box, rh>>

\* lines 32-34 and 42: the next message number, or the end of the loop
Loop ==
  /\ pc = "loop"
  /\ pc' = IF i > Len(messages) THEN NextAfterLoop(Len(messages))
           ELSE IF IsBoundary(i, Len(messages)) THEN "fetch"
           ELSE "store"
  /\ UNCHANGED <<cutoff_config, acct, fld, user_bound, mail_state, selected,
                 box, status, messages, i, h, ah, rh>>

\* lines 35-40: mail.fetch(num, '(RFC822)') and the log line with the Date
\* header; after a NO completion msg_data holds no tuple, msg stays None and
\* msg["Date"] raises TypeError
Fetch ==
  /\ pc = "fetch"
  /\ \E r \in {"OK", "NO", "raise"} :
       LET p == [h EXCEPT !.fetched = Append(@, messages[i]),
                          !.actedOn = @ \cup {selected},
                          !.fetchFailed = (r # "OK"),
                          !.opFailed = @ \/ (r # "OK")]
       IN
       IF r = "OK"
       THEN /\ pc' = "store"
            /\ h' = p
            /\ UNCHANGED <<acct, ah>>
       ELSE Raise(user_bound, ah, p)
  /\ UNCHANGED <<cutoff_config, fld, user_bound, mail_state, selected, box,
                 status, messages, i, rh>>

\* line 43: mail.store(num, '+FLAGS', '\\Deleted'); the result is ignored
Store ==
  /\ pc = "store"
  /\ \E r \in {"OK", "NO", "raise"} :
       LET num == messages[i]
           p == [h EXCEPT !.stored = Append(@, num),
                          !.actedOn = @ \cup {selected},
                          !.marked = IF r = "OK" THEN @ \cup {num} ELSE @,
                          !.opFailed = @ \/ (r # "OK")]
       IN
       /\ box' = IF r = "OK" THEN [box EXCEPT !.deleted = @ \cup {num}] ELSE box
       /\ IF r = "raise"
          THEN /\ Raise(user_bound, ah, p)
               /\ UNCHANGED i
          ELSE /\ pc' = "loop"
               /\ i' = i + 1
               /\ h' = p
               /\ UNCHANGED <<acct, ah>>
  /\ UNCHANGED <<cutoff_config, fld, user_bound, mail_state, selected,
                 status, messages, rh>>

\* lines 48-49: mail.expunge(); the result is ignored
Expunge ==
  /\ pc = "expunge"
  /\ LET p == [h EXCEPT !.nExpunge = @ + 1]
         q == [p EXCEPT !.actedOn = @ \cup {selected}]
     IN
     IF mail_state # "SELECTED"
     THEN /\ Raise(user_bound, ah, [p EXCEPT !.opFailed = TRUE])
          /\ UNCHANGED box
     ELSE \E r \in {"OK", "NO", "raise"} :
            /\ box' = IF r = "OK"
                      THEN [present |-> box.present \ box.deleted, deleted |-> {}]
                      ELSE box
            /\ IF r = "raise"
               THEN Raise(user_bound, ah, [q EXCEPT !.opFailed = TRUE])
               ELSE /\ pc' = "ret"
                    /\ h' = [q EXCEPT !.purged = IF r = "OK" THEN box.deleted ELSE @,
                                      !.opFailed = @ \/ (r # "OK")]
                    /\ UNCHANGED <<acct, ah>>
  /\ UNCHANGED <<cutoff_config, fld, user_bound, mail_state, selected,
                 status, messages, i, rh>>

\* process_mailbox_folder returns to line 66
Return ==
  /\ pc = "ret"
  /\ pc' = "for_fld"
  /\ fld' = fld + 1
  /\ h' = [h EXCEPT !.pass = "returned"]
  /\ ah' = [ah EXCEPT !.passFailed = @ \/ h.opFailed]
  /\ UNCHANGED <<cutoff_config, acct, user_bound, mail_state, selected, box,
                 status, messages, i, rh>>

Next ==
  \/ MainLoop
  \/ MainExit
  \/ Connect
  \/ Login
  \/ ForFld
  \/ Select
  \/ Search
  \/ Loop
  \/ Fetch
  \/ Store
  \/ Expunge
  \/ Return
  \/ Close
  \/ Logout

Spec == Init /\ [][Next]_vars

TypeOK ==
  /\ pc \in {"main", "connect", "login", "for_fld", "select", "search", "loop",
             "fetch", "store", "expunge", "ret", "close", "logout", "done",
             "crashed"}
  /\ acct \in 1..(NumAccounts + 1)
  /\ fld \in 1..(NumFolders + 1)
  /\ mail_state \in {"NONE", "NONAUTH", "AUTH", "SELECTED", "LOGOUT"}
  /\ box \in Boxes

\* ---- properties --------------------------------------------------------
PassEnded == h.pass \in {"returned", "raised"}

\* C1 (as claimed): when process_mailbox has returned, every folder that
\* comes after a folder whose select failed has had its own select issued.
C1_SelectFailureIsolated ==
  ah.returned =>
    \A f \in ah.selFailed : \A g \in Folders : f < g => g \in ah.selIssued

\* C2 (as claimed): once the search of a folder has returned a status other
\* than OK, that folder pass stores no deletion mark and issues no expunge,
\* the error is logged, and the pass ends by returning to the loop over the
\* folders (which goes on to the next folder) rather than by an exception.
C2_SearchFailureSkipsCommit ==
  status = "NO" =>
    /\ h.stored = <<>>
    /\ h.nExpunge = 0
    /\ h.folderErr
    /\ h.pass # "raised"

\* C3 (as claimed): when process_mailbox has returned for an account whose
\* connect succeeded, close and logout have each been called exactly once.
C3_TeardownOnce ==
  (ah.returned /\ ah.connected) => ah.nClose = 1 /\ ah.nLogout = 1

\* C4 (as claimed): no exception leaves main, and when main is done
\* process_mailbox has been called for every configured account.
C4_NoEscape ==
  /\ pc # "crashed"
  /\ pc = "done" => rh.called = Accounts

\* C5 (as claimed): a folder pass in which a boundary fetch failed still
\* ends with a store issued for every reference of the search result and
\* with the expunge issued.
C5_FetchFailureRecovered ==
  (h.fetchFailed /\ PassEnded) => h.stored = messages /\ h.nExpunge = 1

\* C6: after the login of account A is rejected, process_mailbox for A has
\* returned to main's loop (nothing was raised to main), and the account
\* after A either has had its session opened or is the one main is about
\* to open.
C6_AuthFailureIsolated ==
  \A a \in rh.loginFailed :
    /\ acct > a
    /\ a < NumAccounts =>
         \/ (a + 1) \in rh.opened
         \/ acct = a + 1 /\ pc \in {"main", "connect"}

C6_Witness ==
  \E a \in rh.loginFailed : (a + 1) \in rh.opened

\* C7 (as claimed): when a folder pass has ended, every message the pass
\* marked as deleted was removed by the pass's expunge, or an error was
\* logged.
C7_NoSilentUncommitted ==
  PassEnded => (h.marked \subseteq h.purged) \/ h.folderErr \/ ah.acctErr

\* C8: a folder pass that returned without any failed operation and whose
\* search listed N >= 1 references issued its stores for exactly those N
\* references in the listed order, and fetched exactly the first reference
\* when N = 1, exactly the first and then the last one otherwise.
C8_MarksAndFetches ==
  (h.pass = "returned" /\ ~h.opFailed /\ Len(messages) >= 1) =>
    /\ h.stored = messages
    /\ h.fetched = IF Len(messages) = 1 THEN <<messages[1]>>
                   ELSE <<messages[1], messages[Len(messages)]>>

C8_Witness ==
  /\ h.pass = "returned"
  /\ ~h.opFailed
  /\ Len(messages) >= 3
  /\ Len(h.stored) = Len(messages)
  /\ Len(h.fetched) = 2

\* C9: a folder pass whose search succeeded with an empty result ends with
\* no store and no fetch issued and with exactly one expunge issued.
C9_EmptyResult ==
  (status = "OK" /\ messages = <<>> /\ PassEnded) =>
    h.stored = <<>> /\ h.fetched = <<>> /\ h.nExpunge = 1

C9_Witness ==
  /\ status = "OK"
  /\ messages = <<>>
  /\ h.pass = "returned"
  /\ h.nExpunge = 1

\* C10 (as claimed): every folder pass that has ended issued exactly one
\* search, with threshold * 3600 as its age argument.
C10_ExactlyOneSearch ==
  PassEnded =>
    h.nSearch = 1 /\ h.searchArg = cutoff_config[h.folder] * 3600

\* C10 (amended): a folder pass issues at most one search, exactly one when
\* its select call returned instead of raising, and the age argument of the
\* search is threshold * 3600, for threshold 0 as well.
C10_SearchArg ==
  /\ h.nSearch <= 1
  /\ (PassEnded /\ h.selectRes \in {"OK", "NO"}) => h.nSearch = 1
  /\ h.nSearch = 1 => h.searchArg = cutoff_config[h.folder] * 3600

C10_Witness ==
  /\ h.pass = "returned"
  /\ h.nSearch = 1
  /\ cutoff_config[h.folder] = 0
  /\ h.searchArg = 0
  /\ Len(messages) = MaxMsgs

\* C11 (as claimed): a folder pass in which a store of the deletion mark
\* failed (the mark was not set by a store that was issued) still ends with
\* the expunge issued.
C11_StoreFailureStillCommits ==
  (PassEnded /\ \E k \in 1..Len(h.stored) : h.stored[k] \notin h.marked) =>
    h.nExpunge = 1

\* C12 (as claimed): a folder pass whose select failed issues no search and
\* no expunge.
C12_SelectFailureStopsReap ==
  h.selectRes \in {"NO", "raise"} => h.nSearch = 0 /\ h.nExpunge = 0

\* C13: as long as the login of the current session has not succeeded, no
\* select, search, fetch, store or expunge has been issued on it.
C13_NoOpsWithoutLogin ==
  ~ah.loggedIn =>
    /\ ah.selIssued = {}
    /\ h.nSearch = 0
    /\ h.fetched = <<>>
    /\ h.stored = <<>>
    /\ h.nExpunge = 0
    /\ pc \notin {"select", "search", "loop", "fetch", "store", "expunge", "ret"}

C13_Witness ==
  /\ ah.account \in rh.loginFailed
  /\ ah.connected
  /\ ~ah.loggedIn
  /\ ah.acctErr
  /\ ah.returned
  /\ pc = "main"

\* C14: when close or logout has raised, the exception was handled inside
\* process_mailbox: an error is logged, process_mailbox has returned to
\* main's loop, which has moved on to the next account, and that account
\* either has had its session opened or is the one main is about to open.
C14_TeardownFailureIsolated ==
  /\ ah.tdFailed =>
       /\ pc = "main"
       /\ acct = ah.account + 1
       /\ ah.acctErr
       /\ ah.returned
  /\ \A a \in rh.tdFailed :
       /\ acct > a
       /\ a < NumAccounts =>
            \/ (a + 1) \in rh.opened
            \/ acct = a + 1 /\ pc \in {"main", "connect"}

C14_Witness ==
  \E a \in rh.tdFailed : (a + 1) \in rh.opened /\ ah.account = a + 1

\* C15 (as claimed): every message the expunge of a folder pass removed is
\* one of the references the search of that pass returned.
C15_PurgedWereFound ==
  h.purged \subseteq {messages[k] : k \in 1..Len(messages)}

\* C16 (as claimed): within a folder pass the select comes before the
\* search, the search before every fetch and store, and all stores before
\* the expunge; a new pass starts only with nothing of it issued yet; and
\* when main is back at its loop to take the next account, the session of
\* the account just processed has been ended by logout, so that two
\* sessions are never open together.
C16_StrictSequence ==
  /\ h.nSearch > 0 => h.folder \in ah.selIssued
  /\ (h.fetched # <<>> \/ h.stored # <<>>) => h.nSearch = 1
  /\ h.nExpunge > 0 => h.nSearch = 1 /\ (status = "OK" => h.stored = messages)
  /\ pc = "select" =>
       h.nSearch = 0 /\ h.stored = <<>> /\ h.fetched = <<>> /\ h.nExpunge = 0
  /\ (pc = "main" /\ ah.connected) => mail_state = "LOGOUT"

\* C17: every search, fetch, store and expunge that reaches the server
\* during the pass of folder G acts on G: the folder the server has selected
\* is G whenever one of them is carried out, also when G's select failed
\* while the server still has an earlier folder selected.
C17_PassActsOnOwnFolder ==
  /\ h.actedOn \subseteq {h.folder}
  /\ h.selectRes \in {"NO", "raise"} =>
       h.actedOn = {} /\ h.marked = {} /\ h.purged = {}

C17_Witness ==
  /\ h.folder = 2
  /\ h.selectRes = "NO"
  /\ selected = 1
  /\ box.present # {}
  /\ h.nSearch = 1
  /\ h.pass = "raised"
  /\ h.actedOn = {}

\* C18 (as claimed): close is issued only after the last folder pass has
\* returned and logout only after close; and when process_mailbox has
\* returned from a run in which connect, login and every folder pass
\* succeeded, close and logout have each been issued exactly once and the
\* session is logged out.
C18_CleanRunTeardown ==
  /\ ah.nClose > 0 => ah.selIssued = Folders /\ h.pass = "none"
  /\ ah.nLogout > 0 => ah.nClose = 1
  /\ (ah.returned /\ ah.loggedIn /\ ~ah.passFailed
        /\ ah.selIssued = Folders /\ h.pass = "none") =>
       ah.nClose = 1 /\ ah.nLogout = 1 /\ mail_state = "LOGOUT"

====
